---------------------------- MODULE Spec2Model ----------------------------
(***************************************************************************)
(* Separation oracles of corr-solver: the monotonicity oracle and its      *)
(* wrapper (corr_bspline_oracle.py), the least-squares epigraph oracle     *)
(* (lsq_corr_oracle.py), the maximum-likelihood oracle                     *)
(* (mle_corr_oracle.py), the generalized and the quadratic matrix          *)
(* inequality oracles (gmi_oracle.py, qmi_oracle.py).                      *)
(*                                                                         *)
(* Floating-point numbers are modelled as exact rationals <<num, den>>     *)
(* (den > 0, lowest terms); float("inf") is <<1, 0>> and Python's None,    *)
(* where a number is expected, is <<0, 0>>.  Vectors and matrices are      *)
(* functions over 0..n-1, indexed as numpy indexes them.                   *)
(***************************************************************************)
EXTENDS Integers, Sequences, FiniteSets, TLC

VARIABLES family, qmi, ldlt_qmi, ldlt_lmi0, ldlt_lmi, best, res

vars == <<family, qmi, ldlt_qmi, ldlt_lmi0, ldlt_lmi, best, res>>

---------------------------------------------------------------------------
(* Rational arithmetic: the numbers of the numpy arrays.                   *)

Abs(a) == IF a < 0 THEN -a ELSE a

RECURSIVE GCD(_, _)
GCD(a, b) == IF b = 0 THEN a ELSE GCD(b, a % b)

Norm(n, d) ==
    LET g == GCD(Abs(n), Abs(d))
        s == IF d < 0 THEN -1 ELSE 1
    IN  IF n = 0 THEN <<0, 1>> ELSE <<(s * n) \div g, (s * d) \div g>>

R(n) == <<n, 1>>
NoneVal == <<0, 0>>
Inf == <<1, 0>>

RAdd(a, b) == Norm(a[1] * b[2] + b[1] * a[2], a[2] * b[2])
RNeg(a) == <<-a[1], a[2]>>
RSub(a, b) == RAdd(a, RNeg(b))
RMul(a, b) == Norm(a[1] * b[1], a[2] * b[2])
RDiv(a, b) == Norm(a[1] * b[2], a[2] * b[1])
RGt0(a) == a[1] > 0
RGe0(a) == a[1] >= 0
RLe0(a) == a[1] <= 0

(* a - t for a finite a and an incumbent t that may be float("inf"):       *)
(* a - inf is -inf, which is below every finite number.                    *)
MinusInf == <<-1, 0>>
SubT(a, t) == IF t = Inf THEN MinusInf ELSE RSub(a, t)

---------------------------------------------------------------------------
(* Vectors (numpy 1-d arrays) and matrices (2-d arrays), 0-indexed.        *)

Len0(v) == Cardinality(DOMAIN v)
Zeros(n) == [i \in 0..(n - 1) |-> R(0)]
(* v[lo:hi] *)
Slice(v, lo, hi) == [i \in 0..(hi - lo - 1) |-> v[lo + i]]
(* v[:-1] *)
Init0(v) == Slice(v, 0, Len0(v) - 1)
(* v[-1] *)
Last0(v) == v[Len0(v) - 1]

RECURSIVE SumTo(_, _, _)
(* sum(f[k] for k in range(lo, hi)) *)
SumTo(f, lo, hi) == IF lo >= hi THEN R(0) ELSE RAdd(f[lo], SumTo(f, lo + 1, hi))

(* The one element of a singleton set: The({e(v) : v \in {a}}) is e(a),    *)
(* with a evaluated once.                                                  *)
The(S) == CHOOSE v \in S : TRUE

(* u @ v for two vectors of the same length *)
Dot(u, v) == SumTo([k \in DOMAIN u |-> RMul(u[k], v[k])], 0, Len0(u))

---------------------------------------------------------------------------
(* The fit's data: two sites, hence 2 x 2 matrices; the basis matrices     *)
(* Sigma[k][i][j] = psi_k(D[i][j]) and the target covariance Y the oracle  *)
(* of the family was constructed with.  "lsq0": the degree-0 polynomial    *)
(* basis (the all-ones matrix alone) and Y = 0; "qmi_ns": a QMIOracle over *)
(* a basis matrix that is not symmetric; every other family: the identity  *)
(* and the all-ones matrix, and a positive definite Y.                     *)

N == 2

Mat(rows) == [i \in 0..(N - 1) |-> [j \in 0..(N - 1) |-> R(rows[i + 1][j + 1])]]

DataOf(fam) ==
    CASE fam = "lsq0" ->
            [F |-> [k \in 0..0 |-> Mat(<<<<1, 1>>, <<1, 1>>>>)],
             Y |-> Mat(<<<<0, 0>>, <<0, 0>>>>)]
      [] fam = "qmi_ns" ->
            [F |-> [k \in 0..1 |-> IF k = 0 THEN Mat(<<<<1, 0>>, <<0, 1>>>>)
                                            ELSE Mat(<<<<0, 1>>, <<0, 0>>>>)],
             Y |-> Mat(<<<<2, 1>>, <<1, 2>>>>)]
      [] OTHER ->
            [F |-> [k \in 0..1 |-> IF k = 0 THEN Mat(<<<<1, 0>>, <<0, 1>>>>)
                                            ELSE Mat(<<<<1, 1>>, <<1, 1>>>>)],
             Y |-> Mat(<<<<2, 1>>, <<1, 2>>>>)]

Sigma == DataOf(family).F
Y == DataOf(family).Y
NumBasis == Len0(Sigma)
TwoY == [i \in 0..(N - 1) |-> [j \in 0..(N - 1) |-> RMul(R(2), Y[i][j])]]

(* sum(F[k][i, j] * x[k] for k in range(len(x))) *)
Comb(F, x, i, j) == SumTo([k \in DOMAIN x |-> RMul(F[k][i][j], x[k])], 0, Len0(x))

---------------------------------------------------------------------------
(* QMIOracle.QMI: H(x) = t*I - F(x)'F(x), F(x) = F0 - sum F[k]*x[k], with   *)
(* the row cache Fx, the row counter count and the threshold t.            *)

QMIInit == [t |-> NoneVal, count |-> 0, Fx |-> [i \in 0..(N - 1) |-> Zeros(N)]]

QMIUpdateOnce(h, t) == IF h.t = NoneVal THEN [h EXCEPT !.t = t] ELSE h

(* QMI.update(t) *)
QMIUpdate(h, t) == [h EXCEPT !.t = t]

(* self.F0[:, i] - sum(self.F[k][:, i] * x[k] for k in range(nx)) *)
QMIRow(i, x) == [r \in 0..(N - 1) |-> RSub(Y[r][i], Comb(Sigma, x, r, i))]

(* if self.count < i + 1: the row counter and row i of the cache *)
QMICache(h, i, x) ==
    IF h.count < i + 1
    THEN [h EXCEPT !.count = i + 1, !.Fx[i] = QMIRow(i, x)]
    ELSE h

(* a = -(Fx[i] @ Fx[j]); t + a on the diagonal (a TypeError when t is None) *)
QMIValue(h, i, j) ==
    IF i = j /\ h.t = NoneVal
    THEN [h |-> h, val |-> NoneVal, err |-> "TypeError"]
    ELSE [h |-> h,
          val |-> RAdd(IF i = j THEN h.t ELSE R(0), RNeg(Dot(h.Fx[i], h.Fx[j]))),
          err |-> ""]

QMIEvalBadOrder(h, i, j, x) ==
    IF i < j
    THEN [h |-> QMICache(h, i, x), val |-> NoneVal, err |-> "AssertionError"]
    ELSE QMIValue(QMICache(h, i, x), i, j)

(* QMI.eval(i, j, x): the oracle after the call, the value returned and    *)
(* the exception raised ("" for none).                                     *)
QMIEval(h, i, j, x) ==
    IF i < j
    THEN [h |-> h, val |-> NoneVal, err |-> "AssertionError"]
    ELSE QMIValue(QMICache(h, i, x), i, j)

(* The element callback get_elem(row, col) of each matrix inequality:      *)
(* "qmi" is GMIOracle's H.eval; "lmi0" is F(x) = sum F[k]*x[k];            *)
(* "lmi" is 2Y - sum F[k]*x[k].                                            *)
Elem(kind, h, i, j, x) ==
    CASE kind = "qmi"  -> QMIEval(h, i, j, x)
      [] kind = "lmi0" -> [h |-> h, val |-> Comb(Sigma, x, i, j), err |-> ""]
      [] kind = "lmi"  -> [h |-> h, val |-> RSub(TwoY[i][j], Comb(Sigma, x, i, j)),
                           err |-> ""]

---------------------------------------------------------------------------
(* The factorization engine (LDLT manager): factor stops at the first      *)
(* non-positive pivot and records the failing leading block in pos;        *)
(* witness fills wit on pos and returns the violation value.  A pass runs  *)
(* on st = [l: the manager, h: the H object, err: the pending exception].  *)

LDLTInit == [pos |-> <<0, 0>>, wit |-> Zeros(N),
             storage |-> [i \in 0..(N - 1) |-> Zeros(N)]]

IsSpd(l) == l.pos[2] = 0

RECURSIVE FactorInner(_, _, _, _, _, _, _)
(* d = get_elem(i, stop) - storage[i, start:stop] @ storage[start:stop, stop] *)
FactorInnerNext(kind, x, st, start, i, stop, e) ==
    IF e.err # ""
    THEN [st |-> [st EXCEPT !.h = e.h, !.err = e.err], d |-> e.val]
    ELSE FactorInner(kind, x, [st EXCEPT !.h = e.h], start, i, stop,
             RSub(e.val,
                  SumTo([k \in 0..(N - 1) |->
                           RMul(st.l.storage[i][k], st.l.storage[k][stop])],
                        start, stop)))

(* for j in range(start, i): storage[j, i] = d; storage[i, j] = d / storage[j, j] *)
FactorInner(kind, x, st, start, i, j, d) ==
    IF j >= i
    THEN [st |-> st, d |-> d]
    ELSE The({FactorInnerNext(kind, x, st1, start, i, j + 1,
                              Elem(kind, st1.h, i, j + 1, x)) :
              st1 \in {[st EXCEPT !.l.storage[j][i] = d,
                                  !.l.storage[i][j] = RDiv(d, st.l.storage[j][j])]}})

RECURSIVE FactorRows(_, _, _, _)
(* storage[i, i] = d; if d <= 0: pos = (start, i + 1); break *)
FactorRowEnd(kind, x, start, i, r) ==
    IF r.st.err # ""
    THEN r.st
    ELSE IF RLe0(r.d)
         THEN [r.st EXCEPT !.l.storage[i][i] = r.d, !.l.pos = <<start, i + 1>>]
         ELSE FactorRows(kind, x, [r.st EXCEPT !.l.storage[i][i] = r.d], i + 1)

(* d = get_elem(i, start), then the inner loop *)
FactorRowFirst(kind, x, st, start, i, e) ==
    IF e.err # ""
    THEN [st EXCEPT !.h = e.h, !.err = e.err]
    ELSE FactorRowEnd(kind, x, start, i,
             FactorInner(kind, x, [st EXCEPT !.h = e.h], start, i, start, e.val))

(* for i in range(ndim), with start = 0 *)
FactorRows(kind, x, st, i) ==
    IF i >= N
    THEN st
    ELSE FactorRowFirst(kind, x, st, 0, i, Elem(kind, st.h, i, 0, x))

(* LDLTMgr.factor(get_elem): self.pos = (0, 0), then the rows in order.    *)
Factor(kind, l, h, x) ==
    FactorRows(kind, x, [l |-> [l EXCEPT !.pos = <<0, 0>>], h |-> h, err |-> ""], 0)

RECURSIVE WitLoop(_, _, _, _)
(* for i in range(m, start, -1): wit[i-1] = -(storage[i:n, i-1] @ wit[i:n]) *)
WitLoop(sto, wit, i, pos) ==
    IF i <= pos[1]
    THEN wit
    ELSE WitLoop(sto,
                 [wit EXCEPT ![i - 1] =
                     RNeg(SumTo([k \in 0..(N - 1) |-> RMul(sto[k][i - 1], wit[k])],
                                i, pos[2]))],
                 i - 1, pos)

(* LDLTMgr.witness(): called only after a failed pass (pos[2] # 0);        *)
(* wit[m] = 1 for m = pos[2] - 1, the loop, and -storage[m, m] returned.   *)
WitnessVec(l) == WitLoop(l.storage, [l.wit EXCEPT ![l.pos[2] - 1] = R(1)],
                         l.pos[2] - 1, l.pos)
WitnessEp(l) == RNeg(l.storage[l.pos[2] - 1][l.pos[2] - 1])
Witness(l) == [l |-> [l EXCEPT !.wit = WitnessVec(l)], ep |-> WitnessEp(l)]

(* LDLTMgr.sym_quad(A): v @ A[s:n, s:n] @ v with v = wit[s:n]              *)
SymQuad(l, A) ==
    SumTo([i \in 0..(N - 1) |->
             SumTo([j \in 0..(N - 1) |-> RMul(l.wit[i], RMul(A[i][j], l.wit[j]))],
                   l.pos[1], l.pos[2])], l.pos[1], l.pos[2])

---------------------------------------------------------------------------
(* What an oracle call returns: kind "none" (None, feasible), "cut" (g, fj)*)
(* or "error" (an exception was raised).                                   *)

NoCut == [kind |-> "none", g |-> Zeros(0), fj |-> NoneVal]
Cut(g, fj) == [kind |-> "cut", g |-> g, fj |-> fj]
Raised == [kind |-> "error", g |-> Zeros(0), fj |-> NoneVal]

---------------------------------------------------------------------------
(* QMI.neg_grad_sym_quad(Q, x): Av = v @ Fx[s:n],                          *)
(* g[k] = -2 * ((v @ F[k][s:n]) @ Av), with v = Q.v[s:n] the witness.      *)

(* v[s:n] @ A[s:n] *)
RowComb(v, A, s, n) ==
    [c \in 0..(N - 1) |-> SumTo([i \in 0..(N - 1) |-> RMul(v[i], A[i][c])], s, n)]

NegGradOf(Q, Av) ==
    [k \in 0..(NumBasis - 1) |->
        RMul(R(-2), Dot(RowComb(Q.wit, Sigma[k], Q.pos[1], Q.pos[2]), Av))]

NegGradSymQuad(h, Q, x) == NegGradOf(Q, RowComb(Q.wit, h.Fx, Q.pos[1], Q.pos[2]))

GMICutNegEp(h, w, x) ==
    [h |-> h, l |-> w.l, cut |-> Cut(NegGradSymQuad(h, w.l, x), RNeg(w.ep)), err |-> ""]

(* ep = self.ldlt_mgr.witness(); g = self.H.neg_grad_sym_quad(...); return g, ep *)
GMICut(h, w, x) ==
    [h |-> h, l |-> w.l, cut |-> Cut(NegGradSymQuad(h, w.l, x), w.ep), err |-> ""]

(* if self.ldlt_mgr.factor(get_elem): return None *)
GMIAfterFactor(f, x) ==
    IF f.err # ""
    THEN [h |-> f.h, l |-> f.l, cut |-> Raised, err |-> f.err]
    ELSE IF IsSpd(f.l)
         THEN [h |-> f.h, l |-> f.l, cut |-> NoCut, err |-> ""]
         ELSE GMICut(f.h, Witness(f.l), x)

(* GMIOracle.assess_feas(x) with H the QMI object h and manager l.         *)
GMIAssessFeas(h, l, x) == GMIAfterFactor(Factor("qmi", l, h, x), x)

QMIOracleAssessFeasNoReset(h, l, x) == GMIAssessFeas(h, l, x)

(* QMIOracle.assess_feas(x): self.qmi.count = 0, then the GMI oracle.      *)
QMIOracleAssessFeas(h, l, x) == GMIAssessFeas([h EXCEPT !.count = 0], l, x)

(* LMI0Oracle(F).assess_feas(x): F(x) >= 0, cut g[k] = -sym_quad(F[k]).    *)
LMI0Cut(w) ==
    [l |-> w.l,
     cut |-> Cut([k \in 0..(NumBasis - 1) |-> RNeg(SymQuad(w.l, Sigma[k]))], w.ep)]
LMI0AfterFactor(f) ==
    IF IsSpd(f.l) THEN [l |-> f.l, cut |-> NoCut] ELSE LMI0Cut(Witness(f.l))
LMI0AssessFeas(l, x) == LMI0AfterFactor(Factor("lmi0", l, QMIInit, x))

(* LMIOracle(F, 2Y).assess_feas(x): 2Y - F(x) >= 0, cut g[k] = sym_quad(F[k]).*)
LMICut(w) ==
    [l |-> w.l,
     cut |-> Cut([k \in 0..(NumBasis - 1) |-> SymQuad(w.l, Sigma[k])], w.ep)]
LMIAfterFactor(f) ==
    IF IsSpd(f.l) THEN [l |-> f.l, cut |-> NoCut] ELSE LMICut(Witness(f.l))
LMIAssessFeas(l, x) == LMIAfterFactor(Factor("lmi", l, QMIInit, x))

---------------------------------------------------------------------------
(* lsq_oracle.assess_optim(x, t).  o holds the oracle's sub-objects: the   *)
(* QMI object, its manager and the managers of lmi0 and lmi.  checks lists *)
(* the sub-oracles consulted, in order.                                    *)

EmbedOne(g1, last) == [i \in 0..Len0(g1) |-> IF i < Len0(g1) THEN g1[i] ELSE R(1)]

(* g = np.zeros(n); g[:-1] = g1; g[-1] = last *)
Embed(g1, last) == [i \in 0..Len0(g1) |-> IF i < Len0(g1) THEN g1[i] ELSE last]

LsqObjectiveStepGe(x, t) ==
    IF RGe0(SubT(Last0(x), t))
    THEN [cut |-> Cut(Embed(Zeros(Len0(x) - 1), R(1)), SubT(Last0(x), t)),
          inc |-> NoneVal]
    ELSE [cut |-> Cut(Embed(Zeros(Len0(x) - 1), R(1)), R(0)), inc |-> Last0(x)]

(* g[-1] = 1; tc = x[-1]; if (fj := tc - t) > 0.0: cut, else incumbent tc  *)
LsqObjectiveStep(x, t) ==
    IF RGt0(SubT(Last0(x), t))
    THEN [cut |-> Cut(Embed(Zeros(Len0(x) - 1), R(1)), SubT(Last0(x), t)),
          inc |-> NoneVal]
    ELSE [cut |-> Cut(Embed(Zeros(Len0(x) - 1), R(1)), R(0)), inc |-> Last0(x)]

LsqQmiCutWholeWit(o, c1, w) ==
    [o |-> [o EXCEPT !.qmi = c1.h, !.ldlt_qmi = w.l],
     cut |-> Cut(Embed(c1.cut.g,
                       RNeg(SumTo([k \in 0..(N - 1) |-> RMul(w.l.wit[k], w.l.wit[k])],
                                  0, N))),
                 c1.cut.fj),
     inc |-> NoneVal, err |-> "", checks |-> <<"lmi0", "qmi">>]

(* self.qmi.ldlt_mgr.witness(); wit = wit[s:n]; g[-1] = -(wit @ wit)       *)
LsqQmiCut(o, c1, w) ==
    [o |-> [o EXCEPT !.qmi = c1.h, !.ldlt_qmi = w.l],
     cut |-> Cut(Embed(c1.cut.g,
                       RNeg(SumTo([k \in 0..(N - 1) |-> RMul(w.l.wit[k], w.l.wit[k])],
                                  w.l.pos[1], w.l.pos[2]))),
                 c1.cut.fj),
     inc |-> NoneVal, err |-> "", checks |-> <<"lmi0", "qmi">>]

LsqFeasible(o, c1, r) ==
    [o |-> [o EXCEPT !.qmi = c1.h, !.ldlt_qmi = c1.l],
     cut |-> r.cut, inc |-> r.inc, err |-> "", checks |-> <<"lmi0", "qmi", "obj">>]

(* after self.qmi.assess_feas(x[:-1]) returned c1 *)
LsqAfterQmi(o, x, t, c1) ==
    IF c1.err # ""
    THEN [o |-> [o EXCEPT !.qmi = c1.h, !.ldlt_qmi = c1.l], cut |-> Raised,
          inc |-> NoneVal, err |-> c1.err, checks |-> <<"lmi0", "qmi">>]
    ELSE IF c1.cut.kind = "cut"
         THEN LsqQmiCut(o, c1, Witness(c1.l))
         ELSE LsqFeasible(o, c1, LsqObjectiveStep(x, t))

LsqAfterLmi0Ignored(o, x, t, c0) ==
    LsqAfterQmi([o EXCEPT !.ldlt_lmi0 = c0.l], x, t,
                QMIOracleAssessFeas(QMIUpdate(o.qmi, Last0(x)), o.ldlt_qmi,
                                    Init0(x)))

(* after self.lmi0.assess_feas(x[:-1]) returned c0 *)
LsqAfterLmi0(o, x, t, c0) ==
    IF c0.cut.kind = "cut"
    THEN [o |-> [o EXCEPT !.ldlt_lmi0 = c0.l],
          cut |-> Cut(Embed(c0.cut.g, R(0)), c0.cut.fj),
          inc |-> NoneVal, err |-> "", checks |-> <<"lmi0">>]
    ELSE LsqAfterQmi([o EXCEPT !.ldlt_lmi0 = c0.l], x, t,
                     QMIOracleAssessFeas(QMIUpdate(o.qmi, Last0(x)), o.ldlt_qmi,
                                         Init0(x)))

LsqAssessOptim(o, x, t) ==
    LsqAfterLmi0(o, x, t, LMI0AssessFeas(o.ldlt_lmi0, Init0(x)))

---------------------------------------------------------------------------
(* mle_oracle.assess_optim(x, t).  R = lmi0.ldlt_mgr.sqrt() is the factor  *)
(* D^(1/2) L' of the retained storage, so S = inv(R) inv(R)' is            *)
(* inv(L)' inv(D) inv(L) and 2*sum(log(diag(R))) is the sum of log(D[i]).   *)
(* np.log is modelled by the first two terms of its series in              *)
(* z = (d - 1)/(d + 1).                                                    *)

RECURSIVE LInv(_, _, _)
LInv(sto, i, j) ==
    IF i < j THEN R(0)
    ELSE IF i = j THEN R(1)
    ELSE RNeg(SumTo([k \in 0..(N - 1) |->
                       IF k >= j /\ k < i THEN RMul(sto[i][k], LInv(sto, k, j))
                                          ELSE R(0)], j, i))

SFromFactor(sto) ==
    [a \in 0..(N - 1) |-> [b \in 0..(N - 1) |->
        SumTo([k \in 0..(N - 1) |->
                 RDiv(RMul(LInv(sto, k, a), LInv(sto, k, b)), sto[k][k])], 0, N)]]

MatMul(A, B) ==
    [i \in 0..(N - 1) |-> [j \in 0..(N - 1) |->
        SumTo([k \in 0..(N - 1) |-> RMul(A[i][k], B[k][j])], 0, N)]]

Trace(A) == SumTo([k \in 0..(N - 1) |-> A[k][k]], 0, N)

LogOfZ(z) == RAdd(RMul(R(2), z), RDiv(RMul(R(2), RMul(z, RMul(z, z))), R(3)))
LogApprox(d) == LogOfZ(RDiv(RSub(d, R(1)), RAdd(d, R(1))))

(* f1 = 2 * np.sum(np.log(diag)) + np.trace(SY) *)
MleObjective(sto, SY) ==
    RAdd(SumTo([k \in 0..(N - 1) |-> LogApprox(sto[k][k])], 0, N), Trace(SY))

(* g[i] = trace(SFsi) - sum(SFsi[k, :] @ SY[:, k] for k in range(m)) *)
MleGradientOf(SFsi, SY) ==
    RSub(Trace(SFsi),
         SumTo([k \in 0..(N - 1) |->
                  SumTo([c \in 0..(N - 1) |-> RMul(SFsi[k][c], SY[c][k])], 0, N)],
               0, N))
MleGradient(S, SY, n) == [i \in 0..(n - 1) |-> MleGradientOf(MatMul(S, Sigma[i]), SY)]

MleObjectiveStepStrict(f1, g, t) ==
    IF RGt0(SubT(f1, t))
    THEN [cut |-> Cut(g, SubT(f1, t)), inc |-> NoneVal]
    ELSE [cut |-> Cut(g, R(0)), inc |-> f1]

(* if (f := f1 - t) >= 0: return (g, f), None; return (g, 0.0), f1 *)
MleObjectiveStep(f1, g, t) ==
    IF RGe0(SubT(f1, t))
    THEN [cut |-> Cut(g, SubT(f1, t)), inc |-> NoneVal]
    ELSE [cut |-> Cut(g, R(0)), inc |-> f1]

MleWithSY(sto, S, SY, n, t) ==
    MleObjectiveStep(MleObjective(sto, SY), MleGradient(S, SY, n), t)
MleWithS(sto, S, n, t) == MleWithSY(sto, S, MatMul(S, Y), n, t)

(* the objective part of assess_optim, from the storage lmi0 retained *)
MleFeasible(sto, n, t) == MleWithS(sto, SFromFactor(sto), n, t)

MleDone(o, r, checks) ==
    [o |-> o, cut |-> r.cut, inc |-> r.inc, err |-> "", checks |-> checks]

MleLowerFirstAfterLmi(o, x, t, sto, cU) ==
    IF cU.cut.kind = "cut"
    THEN [o |-> [o EXCEPT !.ldlt_lmi = cU.l], cut |-> cU.cut, inc |-> NoneVal,
          err |-> "", checks |-> <<"lmi0", "lmi">>]
    ELSE MleDone([o EXCEPT !.ldlt_lmi = cU.l], MleFeasible(sto, Len0(x), t),
                 <<"lmi0", "lmi", "obj">>)

MleLowerFirstAfterLmi0(o, x, t, cL) ==
    IF cL.cut.kind = "cut"
    THEN [o |-> [o EXCEPT !.ldlt_lmi0 = cL.l], cut |-> cL.cut, inc |-> NoneVal,
          err |-> "", checks |-> <<"lmi0">>]
    ELSE MleLowerFirstAfterLmi([o EXCEPT !.ldlt_lmi0 = cL.l], x, t, cL.l.storage,
                               LMIAssessFeas(o.ldlt_lmi, x))

MleAssessOptimLowerFirst(o, x, t) ==
    MleLowerFirstAfterLmi0(o, x, t, LMI0AssessFeas(o.ldlt_lmi0, x))

(* after self.lmi0.assess_feas(x) returned cL *)
MleAfterLmi0(o, x, t, cL) ==
    IF cL.cut.kind = "cut"
    THEN [o |-> [o EXCEPT !.ldlt_lmi0 = cL.l], cut |-> cL.cut, inc |-> NoneVal,
          err |-> "", checks |-> <<"lmi", "lmi0">>]
    ELSE MleDone([o EXCEPT !.ldlt_lmi0 = cL.l],
                 MleFeasible(cL.l.storage, Len0(x), t), <<"lmi", "lmi0", "obj">>)

(* after self.lmi.assess_feas(x) returned cU *)
MleAfterLmi(o, x, t, cU) ==
    IF cU.cut.kind = "cut"
    THEN [o |-> [o EXCEPT !.ldlt_lmi = cU.l], cut |-> cU.cut, inc |-> NoneVal,
          err |-> "", checks |-> <<"lmi">>]
    ELSE MleAfterLmi0([o EXCEPT !.ldlt_lmi = cU.l], x, t,
                      LMI0AssessFeas(o.ldlt_lmi0, x))

MleAssessOptim(o, x, t) == MleAfterLmi(o, x, t, LMIAssessFeas(o.ldlt_lmi, x))

---------------------------------------------------------------------------
(* mono_oracle(x) and mono_decreasing_oracle2.assess_optim(x, t).          *)

(* g[i] = -1.0; g[i + 1] = 1.0 *)
Unit2(n, i) == [k \in 0..(n - 1) |-> IF k = i THEN R(-1)
                                     ELSE IF k = i + 1 THEN R(1) ELSE R(0)]

RECURSIVE MonoScanLast(_, _)
MonoScanLast(x, i) ==
    IF i < 0
    THEN NoCut
    ELSE IF RGt0(RSub(x[i + 1], x[i]))
         THEN Cut(Unit2(Len0(x), i), RSub(x[i + 1], x[i]))
         ELSE MonoScanLast(x, i - 1)

MonoOracleLast(x) == MonoScanLast(x, Len0(x) - 2)

RECURSIVE MonoScan(_, _)
(* for i in range(n - 1): if (fj := x[i + 1] - x[i]) > 0.0: return g, fj   *)
MonoScan(x, i) ==
    IF i >= Len0(x) - 1
    THEN NoCut
    ELSE IF RGt0(RSub(x[i + 1], x[i]))
         THEN Cut(Unit2(Len0(x), i), RSub(x[i + 1], x[i]))
         ELSE MonoScan(x, i + 1)

MonoOracle(x) == MonoScan(x, 0)

(* self.basis.assess_optim(x, t) *)
InnerAssessOptim(inner, o, x, t) ==
    IF inner = "lsq" THEN LsqAssessOptim(o, x, t) ELSE MleAssessOptim(o, x, t)

MonoDelegated(r) == [r EXCEPT !.checks = <<"mono">> \o @]

MonoDecAfterMonoAlways(inner, o, x, t, cut) ==
    IF cut.kind = "cut"
    THEN [o |-> InnerAssessOptim(inner, o, x, t).o,
          cut |-> Cut(Embed(cut.g, R(0)), cut.fj), inc |-> NoneVal,
          err |-> "", checks |-> <<"mono">>]
    ELSE MonoDelegated(InnerAssessOptim(inner, o, x, t))

(* after mono_oracle(x[:-1]) returned cut *)
MonoDecAfterMono(inner, o, x, t, cut) ==
    IF cut.kind = "cut"
    THEN [o |-> o, cut |-> Cut(Embed(cut.g, R(0)), cut.fj), inc |-> NoneVal,
          err |-> "", checks |-> <<"mono">>]
    ELSE MonoDelegated(InnerAssessOptim(inner, o, x, t))

MonoDecAssessOptim(inner, o, x, t) ==
    MonoDecAfterMono(inner, o, x, t, MonoOracle(Init0(x)))

---------------------------------------------------------------------------
(* The basis builders.  A site is a point <<x, y>>; site lists, matrices   *)
(* and lists of matrices are functions on 0..(n - 1).  np.sqrt is exact on *)
(* the perfect squares the sites below produce.                            *)

ISqrt(n) == CHOOSE r \in 0..n : r * r = n

(* h = site[col] - site[row]; d = np.sqrt(h @ h) *)
Dist(p, q) == R(ISqrt((q[1] - p[1]) * (q[1] - p[1]) + (q[2] - p[2]) * (q[2] - p[2])))

(* D1 = np.zeros((n, n)); for row, for col in range(row + 1, n):           *)
(* D1[row, col] = d; D1[col, row] = d                                      *)
ConstructDistanceMatrix(site) ==
    [row \in DOMAIN site |-> [col \in DOMAIN site |->
        IF row = col THEN R(0)
        ELSE IF row < col THEN Dist(site[row], site[col])
                          ELSE Dist(site[col], site[row])]]

(* np.multiply(D, D1): a new array *)
Hadamard(A, B) == [i \in DOMAIN A |-> [j \in DOMAIN A[i] |-> RMul(A[i][j], B[i][j])]]

(* Sigma += [D] *)
Append0(L, e) == [k \in 0..Len0(L) |-> IF k < Len0(L) THEN L[k] ELSE e]

RECURSIVE PolyLoop(_, _, _, _)
(* for _ in range(m - 1): D = np.multiply(D, D1); Sigma += [D] *)
PolyLoop(L, D, D1, left) ==
    IF left <= 0
    THEN L
    ELSE PolyLoop(Append0(L, Hadamard(D, D1)), Hadamard(D, D1), D1, left - 1)

RECURSIVE PolyLoopInPlace(_, _, _, _)
PolyLoopInPlace(L, D, D1, left) ==
    IF left <= 0
    THEN L
    ELSE PolyLoopInPlace([k \in 0..Len0(L) |-> Hadamard(D, D1)], Hadamard(D, D1),
                         D1, left - 1)

OnesMat(n) == [i \in 0..(n - 1) |-> [j \in 0..(n - 1) |-> R(1)]]

ConstructPolyMatrixInPlace(site, m) ==
    PolyLoopInPlace([k \in 0..0 |-> OnesMat(Len0(site))], OnesMat(Len0(site)),
                    ConstructDistanceMatrix(site), m - 1)

(* construct_poly_matrix(site, m) *)
ConstructPolyMatrix(site, m) ==
    PolyLoop([k \in 0..0 |-> OnesMat(Len0(site))], OnesMat(Len0(site)),
             ConstructDistanceMatrix(site), m - 1)

(* np.linspace(0, stop, num), num >= 2 *)
Linspace(stop, num) == [j \in 0..(num - 1) |-> RDiv(RMul(R(j), stop), R(num - 1))]

(* BSpline(t, c, k): the constructor's validation, then the spline object. *)
(* c is NoneVal or a coefficient vector.                                   *)
BSplineNew(t, c, k) ==
    IF \/ Len0(t) - k - 1 < k + 1
       \/ Cardinality({t[j] : j \in k..(Len0(t) - k - 1)}) < 2
       \/ c = NoneVal
       \/ Len0(c) < Len0(t) - k - 1
    THEN [err |-> "ValueError", t |-> t, c |-> c, k |-> k]
    ELSE [err |-> "", t |-> t, c |-> c, k |-> k]

(* coeff = np.zeros(m); coeff[i] = 1 *)
UnitCoeff(m, i) == [j \in 0..(m - 1) |-> IF j = i THEN R(1) ELSE R(0)]

(* k = 2; h = site[-1] - site[0]; d = np.sqrt(h @ h);                      *)
(* t = np.linspace(0, d * 1.2, m + k + 1)                                  *)
BsplineDegree == 2
BsplineKnots(site, m) ==
    Linspace(RMul(Dist(site[0], site[Len0(site) - 1]), RDiv(R(6), R(5))),
             m + BsplineDegree + 1)

(* generate_bspline_info(site, m): Sigma[i] is the spline spls[i] applied  *)
(* to the distance matrix D, kept as that pair.                            *)
BsplineInfoOf(site, m, t, D) ==
    IF \E i \in 0..(m - 1) : BSplineNew(t, UnitCoeff(m, i), BsplineDegree).err # ""
    THEN [err |-> "ValueError", Sigma |-> Zeros(0), t |-> t, k |-> BsplineDegree,
          D |-> D]
    ELSE [err |-> "",
          Sigma |-> [i \in 0..(m - 1) |->
                        [spl |-> BSplineNew(t, UnitCoeff(m, i), BsplineDegree),
                         at |-> D]],
          t |-> t, k |-> BsplineDegree, D |-> D]
GenerateBsplineInfo(site, m) ==
    BsplineInfoOf(site, m, BsplineKnots(site, m), ConstructDistanceMatrix(site))

---------------------------------------------------------------------------
(* The fit pipelines corr_poly and corr_bspline.  The search procedure     *)
(* corr_core is injected: core is what it returned, [a, num_iters,         *)
(* feasible], with a = NoneVal when it found no coefficient vector.        *)

(* a[::-1] *)
Reverse(a) == [k \in 0..(Len0(a) - 1) |-> a[Len0(a) - 1 - k]]

RECURSIVE FirstNonZero(_, _)
FirstNonZero(c, i) ==
    IF i >= Len0(c) THEN i ELSE IF c[i] # R(0) THEN i ELSE FirstNonZero(c, i + 1)

(* np.poly1d(c): leading zeros trimmed, [0] when nothing is left *)
Poly1dFrom(c, z) ==
    IF z >= Len0(c) THEN [k \in 0..0 |-> R(0)]
    ELSE [k \in 0..(Len0(c) - z - 1) |-> c[z + k]]
Poly1d(c) == Poly1dFrom(c, FirstNonZero(c, 0))

RECURSIVE Horner(_, _, _, _)
(* poly1d.__call__: y = y * x + c over the coefficients, highest first *)
Horner(p, i, y, x) ==
    IF i >= Len0(p) THEN y ELSE Horner(p, i + 1, RAdd(RMul(y, x), p[i]), x)
PolyVal(p, x) == Horner(p, 0, R(0), x)

(* What a pipeline hands back, or the exception it ends with.  Sigma is    *)
(* the basis it built and handed to the oracle.                            *)
Fitted(err, fn, core, Sg, D) ==
    [err |-> err, fn |-> fn, num_iters |-> core.num_iters,
     feasible |-> core.feasible, Sigma |-> Sg, D |-> D]

CorrPolyNoReverse(site, m, core) ==
    IF core.a = NoneVal
    THEN Fitted("TypeError", NoneVal, core, ConstructPolyMatrix(site, m),
                ConstructDistanceMatrix(site))
    ELSE Fitted("", Poly1d(core.a), core, ConstructPolyMatrix(site, m),
                ConstructDistanceMatrix(site))

(* corr_poly(Y, site, m, oracle, corr_core): a[::-1] of a = None raises    *)
(* TypeError.                                                              *)
CorrPoly(site, m, core) ==
    IF core.a = NoneVal
    THEN Fitted("TypeError", NoneVal, core, ConstructPolyMatrix(site, m),
                ConstructDistanceMatrix(site))
    ELSE Fitted("", Poly1d(Reverse(core.a)), core, ConstructPolyMatrix(site, m),
                ConstructDistanceMatrix(site))

(* return BSpline(t, c, k), num_iters, feasible *)
CorrBsplineOf(info, core, spl) ==
    IF info.err # "" THEN Fitted(info.err, NoneVal, core, info.Sigma, info.D)
    ELSE IF spl.err # "" THEN Fitted(spl.err, NoneVal, core, info.Sigma, info.D)
    ELSE Fitted("", spl, core, info.Sigma, info.D)
CorrBsplineFrom(info, core) ==
    CorrBsplineOf(info, core, BSplineNew(info.t, core.a, info.k))

(* corr_bspline(Y, site, m, oracle, corr_core) *)
CorrBspline(site, m, core) == CorrBsplineFrom(GenerateBsplineInfo(site, m), core)

---------------------------------------------------------------------------
(* The state machine.  family is the oracle the fit pipeline constructed   *)
(* ("mono": the bare mono_oracle function; "lsq", "mle": the composite     *)
(* oracle, called directly or through the monotonicity wrapper; "qmi": a   *)
(* bare QMIOracle; "qmi_h": its H object QMIOracle.QMI alone; "basis": the *)
(* basis builders, which hold no state; "pipe": the fit pipelines around an *)
(* injected search procedure; "lsq0", "qmi_ns": the lsq and QMI oracles    *)
(* over the other data sets).  best is                                     *)
(* the search engine's incumbent, passed back as t; res records the last   *)
(* call and what it returned.                                              *)

MaxCoef == 2
MaxLen == 3

CoefVals == {R(c) : c \in -1..MaxCoef}
TVals == {R(0), R(3), R(5)}
Families == {"mono", "lsq", "mle", "qmi", "qmi_h", "basis", "pipe", "lsq0", "qmi_ns"}

MaxSites == 3
MaxM == 3
SitePts == {<<0, 0>>, <<3, 0>>, <<0, 4>>}
SiteLists == UNION {[0..(n - 1) -> SitePts] : n \in 1..MaxSites}

MaxIters == 1
PipeSites == {s \in SiteLists : /\ Len0(s) >= 2
                             /\ s[0] = <<0, 0>>
                             /\ Cardinality({s[i] : i \in DOMAIN s}) = Len0(s)}
PipeCoefs == {R(0), R(1), R(-2)}
CoreOutcomes(m) ==
    [a : {NoneVal} \cup [0..(m - 1) -> PipeCoefs], num_iters : 0..MaxIters,
     feasible : BOOLEAN]

Vecs(n, S) == [0..(n - 1) -> S]
MonoInputs == UNION {Vecs(n, CoefVals) : n \in 0..MaxLen}
V2(a, b) == [k \in 0..1 |-> IF k = 0 THEN R(a) ELSE R(b)]
CoefInputs == {V2(1, 1), V2(1, 2), V2(2, -1), V2(-1, 2), V2(0, 0)}
EvalInputs == {V2(1, 2), V2(0, 0)}
LsqInputs == {[k \in 0..NumBasis |-> IF k < NumBasis THEN c[k] ELSE tc] :
                 c \in CoefInputs, tc \in TVals}
Lsq0Inputs == {[k \in 0..1 |-> IF k = 0 THEN c ELSE tc] : c \in CoefVals, tc \in TVals}

O == [qmi |-> qmi, ldlt_qmi |-> ldlt_qmi, ldlt_lmi0 |-> ldlt_lmi0, ldlt_lmi |-> ldlt_lmi]

Result(op, x, t, i, j, cut, inc, err, checks) ==
    [op |-> op, x |-> x, t |-> t, i |-> i, j |-> j, cut |-> cut, inc |-> inc,
     err |-> err, checks |-> checks]

Init ==
    /\ family \in Families
    /\ qmi = QMIInit
    /\ ldlt_qmi = LDLTInit
    /\ ldlt_lmi0 = LDLTInit
    /\ ldlt_lmi = LDLTInit
    /\ best = Inf
    /\ res = Result("init", Zeros(0), NoneVal, 0, 0, NoCut, NoneVal, "", <<>>)

(* What a call of a composite oracle leaves: the sub-objects, the result   *)
(* and the engine's incumbent (t = t1 when an incumbent t1 is returned).   *)
Returned(op, x, r) ==
    /\ qmi' = r.o.qmi
    /\ ldlt_qmi' = r.o.ldlt_qmi
    /\ ldlt_lmi0' = r.o.ldlt_lmi0
    /\ ldlt_lmi' = r.o.ldlt_lmi
    /\ best' = IF r.inc # NoneVal THEN r.inc ELSE best
    /\ res' = Result(op, x, best, 0, 0, r.cut, r.inc, r.err, r.checks)
    /\ UNCHANGED family

MonoOracleCall ==
    /\ family = "mono"
    /\ \E x \in MonoInputs :
          res' = Result("mono_oracle", x, NoneVal, 0, 0, MonoOracle(x), NoneVal, "",
                        <<"mono">>)
    /\ UNCHANGED <<family, qmi, ldlt_qmi, ldlt_lmi0, ldlt_lmi, best>>

LsqCall ==
    /\ family = "lsq"
    /\ \E x \in LsqInputs : \E r \in {LsqAssessOptim(O, x, best)} :
          Returned("lsq", x, r)

MonoLsqCall ==
    /\ family = "lsq"
    /\ \E x \in LsqInputs : \E r \in {MonoDecAssessOptim("lsq", O, x, best)} :
          Returned("mono_lsq", x, r)

MleCall ==
    /\ family = "mle"
    /\ \E x \in CoefInputs : \E r \in {MleAssessOptim(O, x, best)} :
          Returned("mle", x, r)

MonoMleCall ==
    /\ family = "mle"
    /\ \E x \in CoefInputs : \E r \in {MonoDecAssessOptim("mle", O, x, best)} :
          Returned("mono_mle", x, r)

(* lsq_oracle.assess_optim(x, t) over the degree-0 basis and Y = 0 *)
LsqDegenerateCall ==
    /\ family = "lsq0"
    /\ \E x \in Lsq0Inputs : \E r \in {LsqAssessOptim(O, x, best)} :
          Returned("lsq0", x, r)

(* QMIOracle.update(t) *)
QmiUpdateCall ==
    /\ family \in {"qmi", "qmi_h", "qmi_ns"}
    /\ \E t \in TVals :
          /\ qmi' = QMIUpdate(qmi, t)
          /\ res' = Result("update", Zeros(0), t, 0, 0, NoCut, NoneVal, "", <<>>)
    /\ UNCHANGED <<family, ldlt_qmi, ldlt_lmi0, ldlt_lmi, best>>

(* QMIOracle.assess_feas(x) *)
QmiAssessFeasCall ==
    /\ family \in {"qmi", "qmi_ns"}
    /\ \E x \in CoefInputs :
          \E r \in {QMIOracleAssessFeas(qmi, ldlt_qmi, x)} :
              /\ qmi' = r.h
              /\ ldlt_qmi' = r.l
              /\ res' = Result("assess_feas", x, qmi.t, 0, 0, r.cut, NoneVal, r.err,
                               <<"qmi">>)
    /\ UNCHANGED <<family, ldlt_lmi0, ldlt_lmi, best>>

(* QMI.eval(i, j, x), called on the H object directly *)
QmiEvalCall ==
    /\ family = "qmi_h"
    /\ \E x \in EvalInputs, i \in 0..(N - 1), j \in 0..(N - 1) :
          \E r \in {QMIEval(qmi, i, j, x)} :
              /\ qmi' = r.h
              /\ res' = Result("eval", x, qmi.t, i, j,
                               IF r.err = "" THEN Cut(Zeros(0), r.val) ELSE Raised,
                               NoneVal, r.err, <<>>)
    /\ UNCHANGED <<family, ldlt_qmi, ldlt_lmi0, ldlt_lmi, best>>

(* The result of a basis builder. *)
Built(op, site, m, D, Sg, t, err) ==
    [op |-> op, site |-> site, m |-> m, D |-> D, Sigma |-> Sg, t |-> t, err |-> err]

Idle == UNCHANGED <<family, qmi, ldlt_qmi, ldlt_lmi0, ldlt_lmi, best>>

(* The builders and the pipelines are functions of their arguments and     *)
(* keep nothing between calls: a behaviour applies one of them once.       *)
Fresh == res.op = "init"

(* construct_distance_matrix(site) *)
DistanceMatrixCall ==
    /\ family = "basis"
    /\ Fresh
    /\ \E site \in SiteLists :
          res' = Built("construct_distance_matrix", site, 0,
                       ConstructDistanceMatrix(site), Zeros(0), Zeros(0), "")
    /\ Idle

(* construct_poly_matrix(site, m) *)
PolyMatrixCall ==
    /\ family = "basis"
    /\ Fresh
    /\ \E site \in SiteLists, m \in 1..MaxM :
          res' = Built("construct_poly_matrix", site, m,
                       ConstructDistanceMatrix(site), ConstructPolyMatrix(site, m),
                       Zeros(0), "")
    /\ Idle

(* generate_bspline_info(site, m) *)
BsplineInfoCall ==
    /\ family = "basis"
    /\ Fresh
    /\ \E site \in SiteLists, m \in 1..MaxM :
          \E r \in {GenerateBsplineInfo(site, m)} :
              res' = Built("generate_bspline_info", site, m, r.D, r.Sigma, r.t, r.err)
    /\ Idle

(* The result of a fit pipeline, with the arguments it was called with. *)
Piped(op, site, m, core, r) ==
    [op |-> op, site |-> site, m |-> m, core |-> core, err |-> r.err, fn |-> r.fn,
     num_iters |-> r.num_iters, feasible |-> r.feasible, Sigma |-> r.Sigma,
     D |-> r.D]

(* corr_poly(Y, site, m, oracle, corr_core) *)
CorrPolyCall ==
    /\ family = "pipe"
    /\ Fresh
    /\ \E site \in PipeSites, m \in 1..MaxM : \E core \in CoreOutcomes(m) :
          \E r \in {CorrPoly(site, m, core)} :
              res' = Piped("corr_poly", site, m, core, r)
    /\ Idle

(* corr_bspline(Y, site, m, oracle, corr_core) *)
CorrBsplineCall ==
    /\ family = "pipe"
    /\ Fresh
    /\ \E site \in PipeSites, m \in 1..MaxM : \E core \in CoreOutcomes(m) :
          \E r \in {CorrBspline(site, m, core)} :
              res' = Piped("corr_bspline", site, m, core, r)
    /\ Idle

Next ==
    \/ MonoOracleCall
    \/ LsqCall
    \/ MonoLsqCall
    \/ MleCall
    \/ MonoMleCall
    \/ QmiUpdateCall
    \/ QmiAssessFeasCall
    \/ QmiEvalCall
    \/ DistanceMatrixCall
    \/ PolyMatrixCall
    \/ BsplineInfoCall
    \/ CorrPolyCall
    \/ CorrBsplineCall
    \/ LsqDegenerateCall

Spec == Init /\ [][Next]_vars

---------------------------------------------------------------------------
(* Properties.  The helpers below restate, without the oracles, what the   *)
(* properties compare the recorded results with.                           *)

(* a < b for two finite rationals *)
RLt(a, b) == a[1] * b[2] < b[1] * a[2]

(* the indices i with x[i+1] > x[i] *)
Violations(x) == {i \in 0..(Len0(x) - 2) : RLt(x[i], x[i + 1])}
MinOf(S) == CHOOSE i \in S : \A k \in S : i <= k

(* the vector of length n that is -1 at i, +1 at i + 1 and 0 elsewhere *)
PairCut(n, i) ==
    [k \in 0..(n - 1) |-> IF k = i THEN R(-1) ELSE IF k = i + 1 THEN R(1) ELSE R(0)]

NonIncreasing(c) == \A i \in 0..(Len0(c) - 2) : ~RLt(c[i], c[i + 1])

(* C1: mono_oracle returns the cut of the smallest index i with            *)
(* x[i+1] > x[i] (g[i] = -1, g[i+1] = +1, every other entry 0, value       *)
(* x[i+1] - x[i] > 0), and no cut when x is non-increasing, lengths 0 and  *)
(* 1 included.                                                             *)
C1_FirstViolation ==
    res.op = "mono_oracle" =>
        IF Violations(res.x) = {}
        THEN res.cut.kind = "none"
        ELSE /\ res.cut.kind = "cut"
             /\ res.cut.g = PairCut(Len0(res.x), MinOf(Violations(res.x)))
             /\ res.cut.fj = RSub(res.x[MinOf(Violations(res.x)) + 1],
                                  res.x[MinOf(Violations(res.x))])
             /\ res.cut.fj[1] > 0

(* a sequence with two violations, of which the first was reported *)
C1_Witness ==
    /\ res.op = "mono_oracle"
    /\ Cardinality(Violations(res.x)) >= 2
    /\ res.cut.kind = "cut"
    /\ res.cut.g[0] = R(-1)

(* The sub-objects of the inner oracle, before and after a step. *)
InnerState == <<qmi, ldlt_qmi, ldlt_lmi0, ldlt_lmi>>
InnerOf(op) == IF op = "mono_lsq" THEN "lsq" ELSE "mle"

(* C2: a call of the monotonicity wrapper with a violation on x[:-1]       *)
(* returns that violation's cut embedded in a gradient of len(x) whose     *)
(* last entry is 0, no incumbent, and leaves the inner oracle's objects    *)
(* untouched; without a violation it returns, and leaves behind, exactly   *)
(* what the inner oracle's assess_optim(x, t) does for the same x and t.   *)
C2_WrapperStep ==
    res'.op \in {"mono_lsq", "mono_mle"} =>
        IF Violations(Init0(res'.x)) # {}
        THEN /\ res'.cut.kind = "cut"
             /\ res'.cut.g = PairCut(Len0(res'.x), MinOf(Violations(Init0(res'.x))))
             /\ res'.cut.g[Len0(res'.x) - 1] = R(0)
             /\ res'.cut.fj = RSub(res'.x[MinOf(Violations(Init0(res'.x))) + 1],
                                   res'.x[MinOf(Violations(Init0(res'.x)))])
             /\ res'.inc = NoneVal
             /\ InnerState' = InnerState
        ELSE \E r \in {InnerAssessOptim(InnerOf(res'.op), O, res'.x, best)} :
                /\ res'.t = best
                /\ res'.cut = r.cut
                /\ res'.inc = r.inc
                /\ res'.err = r.err
                /\ InnerState' = <<r.o.qmi, r.o.ldlt_qmi, r.o.ldlt_lmi0, r.o.ldlt_lmi>>
C3_IncumbentIsDecreasing ==
    (res.op \in {"mono_lsq", "mono_mle"} /\ res.inc # NoneVal) =>
        NonIncreasing(IF res.op = "mono_lsq" THEN Init0(res.x) ELSE res.x)

(* Linear algebra on the N = 2 sites, written out entry by entry.          *)
(* F(c) = sum Sigma[k]*c[k]; Resid(c) = Y - F(c);                          *)
(* QmiH(c, t) = t*I - Resid(c)'Resid(c).                                   *)
FofX(c) == [i \in 0..1 |-> [j \in 0..1 |->
              RAdd(RMul(Sigma[0][i][j], c[0]), RMul(Sigma[1][i][j], c[1]))]]
Resid(c) == [i \in 0..1 |-> [j \in 0..1 |-> RSub(Y[i][j], FofX(c)[i][j])]]
Gram(A) == [i \in 0..1 |-> [j \in 0..1 |->
              RAdd(RMul(A[0][i], A[0][j]), RMul(A[1][i], A[1][j]))]]
QmiH(c, t) == [i \in 0..1 |-> [j \in 0..1 |->
                 RSub(IF i = j THEN t ELSE R(0), Gram(Resid(c))[i][j])]]
UpperOf(c) == [i \in 0..1 |-> [j \in 0..1 |-> RSub(TwoY[i][j], FofX(c)[i][j])]]

Det2(M) == RSub(RMul(M[0][0], M[1][1]), RMul(M[1][0], M[1][0]))
(* Sylvester's criterion for a symmetric 2 x 2 matrix *)
PosDef2(M) == M[0][0][1] > 0 /\ Det2(M)[1] > 0
NegDef2(M) == M[0][0][1] < 0 /\ Det2(M)[1] > 0

(* The certificate of a matrix that is not positive definite: the first    *)
(* leading block with a non-positive pivot, w = (1, 0) on block [0, 1),    *)
(* w = (-M10/M00, 1) on block [0, 2), and the value -w'Mw.                 *)
Wit2(M) == IF M[0][0][1] <= 0
           THEN [k \in 0..1 |-> IF k = 0 THEN R(1) ELSE R(0)]
           ELSE [k \in 0..1 |-> IF k = 0 THEN RNeg(RDiv(M[1][0], M[0][0])) ELSE R(1)]
MatVec(A, v) == [i \in 0..1 |-> RAdd(RMul(A[i][0], v[0]), RMul(A[i][1], v[1]))]
Dot2(u, v) == RAdd(RMul(u[0], v[0]), RMul(u[1], v[1]))
Quad2(M, w) == Dot2(w, MatVec(M, w))

(* C4: lsq_oracle.assess_optim, step 1: when the check of F(x[:-1]) fails, *)
(* the result is that check's cut: g[:-1][k] = -w'Sigma[k]w for its        *)
(* certificate w, g[-1] = 0, the value -w'F(x[:-1])w, no incumbent; the    *)
(* QMI oracle is not consulted and its threshold, row cache and manager    *)
(* are as before the call.                                                 *)
C4_LsqPsdStep ==
    (res'.op = "lsq" /\ ~PosDef2(FofX(Init0(res'.x)))) =>
        \E w \in {Wit2(FofX(Init0(res'.x)))} :
            /\ res'.cut.kind = "cut"
            /\ Len0(res'.cut.g) = Len0(res'.x)
            /\ \A k \in 0..(NumBasis - 1) :
                  res'.cut.g[k] = RNeg(Quad2(Sigma[k], w))
            /\ res'.cut.g[Len0(res'.x) - 1] = R(0)
            /\ res'.cut.fj = RNeg(Quad2(FofX(Init0(res'.x)), w))
            /\ res'.inc = NoneVal
            /\ res'.checks = <<"lmi0">>
            /\ qmi' = qmi
            /\ ldlt_qmi' = ldlt_qmi
C4_LsqPsd == [][C4_LsqPsdStep]_vars

(* the PSD check failed in a call whose x[-1] differs from the threshold   *)
(* the QMI oracle kept from an earlier call                                *)
C4_Witness ==
    /\ res.op = "lsq"
    /\ res.checks = <<"lmi0">>
    /\ res.cut.kind = "cut"
    /\ res.cut.g[NumBasis] = R(0)
    /\ qmi.t # NoneVal
    /\ qmi.t # Last0(res.x)

(* C5: lsq_oracle.assess_optim, step 2: when the PSD check passes, the QMI *)
(* check of x[:-1] runs with the threshold x[-1] of this call; if it fails *)
(* with certificate w on its active range, g[:-1][k] is the QMI cut's      *)
(* gradient -2*(Sigma[k]w).(Resid w), g[-1] = -(w.w), the value is the QMI *)
(* cut's value -w'H w, and no incumbent is returned.                       *)
C5_LsqQmiStep ==
    (res'.op = "lsq" /\ PosDef2(FofX(Init0(res'.x)))) =>
        /\ qmi'.t = Last0(res'.x)
        /\ ~PosDef2(QmiH(Init0(res'.x), Last0(res'.x))) =>
              \E w \in {Wit2(QmiH(Init0(res'.x), Last0(res'.x)))} :
                  /\ res'.cut.kind = "cut"
                  /\ Len0(res'.cut.g) = Len0(res'.x)
                  /\ \A k \in 0..(NumBasis - 1) :
                        res'.cut.g[k] =
                            RMul(R(-2), Dot2(MatVec(Sigma[k], w),
                                             MatVec(Resid(Init0(res'.x)), w)))
                  /\ res'.cut.g[Len0(res'.x) - 1] = RNeg(Dot2(w, w))
                  /\ res'.cut.fj = RNeg(Quad2(QmiH(Init0(res'.x), Last0(res'.x)), w))
                  /\ res'.inc = NoneVal
                  /\ res'.checks = <<"lmi0", "qmi">>
C5_LsqQmi == [][C5_LsqQmiStep]_vars

(* the QMI check failed on the leading block [0, 1) while the manager      *)
(* still held a witness entry of an earlier failure outside that block     *)
C5_Witness ==
    /\ res.op = "lsq"
    /\ res.checks = <<"lmi0", "qmi">>
    /\ res.cut.kind = "cut"
    /\ ldlt_qmi.pos = <<0, 1>>
    /\ ldlt_qmi.wit[1] # R(0)
    /\ qmi.t = Last0(res.x)

C7_MleOrderStep ==
    res'.op = "mle" =>
        IF ~PosDef2(UpperOf(res'.x))
        THEN \E w \in {Wit2(UpperOf(res'.x))} :
                /\ res'.cut = Cut([k \in 0..(NumBasis - 1) |-> Quad2(Sigma[k], w)],
                                  RNeg(Quad2(UpperOf(res'.x), w)))
                /\ res'.inc = NoneVal
                /\ res'.checks = <<"lmi">>
                /\ ldlt_lmi0' = ldlt_lmi0
        ELSE IF ~PosDef2(FofX(res'.x))
        THEN \E w \in {Wit2(FofX(res'.x))} :
                /\ res'.cut = Cut([k \in 0..(NumBasis - 1) |->
                                      RNeg(Quad2(Sigma[k], w))],
                                  RNeg(Quad2(FofX(res'.x), w)))
                /\ res'.inc = NoneVal
                /\ res'.checks = <<"lmi", "lmi0">>
        ELSE /\ res'.checks = <<"lmi", "lmi0", "obj">>
             /\ IsSpd(ldlt_lmi') /\ IsSpd(ldlt_lmi0')
             /\ ldlt_lmi0'.storage[0][0] = FofX(res'.x)[0][0]
             /\ ldlt_lmi0'.storage[1][0] = RDiv(FofX(res'.x)[1][0], FofX(res'.x)[0][0])
             /\ ldlt_lmi0'.storage[1][1] = RDiv(Det2(FofX(res'.x)), FofX(res'.x)[0][0])
C7_MleOrder == [][C7_MleOrderStep]_vars

(* both constraints are violated at x and the upper bound's cut is the one *)
(* returned                                                                *)
C7_Witness ==
    /\ res.op = "mle"
    /\ ~PosDef2(UpperOf(res.x))
    /\ ~PosDef2(FofX(res.x))
    /\ res.checks = <<"lmi">>
    /\ res.cut.kind = "cut"

(* The likelihood objective and its gradient at a feasible x, from the     *)
(* inverse of Omega(x) by cofactors.                                       *)
Inv2(M) == [i \in 0..1 |-> [j \in 0..1 |->
              RDiv(IF i = j THEN M[1 - i][1 - j] ELSE RNeg(M[i][j]), Det2(M))]]
Mul2(A, B) == [i \in 0..1 |-> [j \in 0..1 |->
                 RAdd(RMul(A[i][0], B[0][j]), RMul(A[i][1], B[1][j]))]]
Tr2(A) == RAdd(A[0][0], A[1][1])
ObjectiveAt(x) ==
    RAdd(RAdd(LogApprox(FofX(x)[0][0]),
              LogApprox(RDiv(Det2(FofX(x)), FofX(x)[0][0]))),
         Tr2(Mul2(Inv2(FofX(x)), Y)))
GradientAt(x) ==
    [k \in 0..(NumBasis - 1) |->
        RSub(Tr2(Mul2(Inv2(FofX(x)), Sigma[k])),
             Tr2(Mul2(Mul2(Inv2(FofX(x)), Sigma[k]), Mul2(Inv2(FofX(x)), Y))))]

(* C8: mle_oracle.assess_optim at an x feasible for both constraints, with *)
(* f1 the objective and g its gradient: f1 - t >= 0, a tie included, gives *)
(* the cut (g, f1 - t) and no incumbent; f1 < t gives the cut (g, 0) and   *)
(* the incumbent f1.                                                       *)
C8_MleObjective ==
    (/\ res.op = "mle"
     /\ PosDef2(UpperOf(res.x))
     /\ PosDef2(FofX(res.x))) =>
        /\ res.cut.kind = "cut"
        /\ res.cut.g = GradientAt(res.x)
        /\ IF res.t # Inf /\ ~RLt(ObjectiveAt(res.x), res.t)
           THEN res.cut.fj = RSub(ObjectiveAt(res.x), res.t) /\ res.inc = NoneVal
           ELSE res.cut.fj = R(0) /\ res.inc = ObjectiveAt(res.x)

(* a tie: the objective at x equals the incumbent t and a cut of value 0   *)
(* is returned without an incumbent                                        *)
C8_Witness ==
    /\ res.op = "mle"
    /\ res.checks = <<"lmi", "lmi0", "obj">>
    /\ res.t = ObjectiveAt(res.x)
    /\ res.cut.fj = R(0)
    /\ res.inc = NoneVal

(* C9: GMIOracle.assess_feas(x), with H the QMI object holding a           *)
(* threshold: H(x) positive definite gives no cut; H(x) negative definite  *)
(* gives a cut whose value ep is strictly positive; a cut is returned      *)
(* exactly when the factorization reports failure.                         *)
C9_GmiDefiniteness ==
    (res.op = "assess_feas" /\ res.t # NoneVal) =>
        /\ res.err = ""
        /\ PosDef2(QmiH(res.x, res.t)) => res.cut.kind = "none"
        /\ NegDef2(QmiH(res.x, res.t)) => (res.cut.kind = "cut" /\ res.cut.fj[1] > 0)
        /\ res.cut.kind = "cut" <=> ~IsSpd(ldlt_qmi)
        /\ res.cut.kind = "cut" <=> ~PosDef2(QmiH(res.x, res.t))

(* a negative definite H(x) was given a cut of positive value *)
C9_Witness ==
    /\ res.op = "assess_feas"
    /\ res.t # NoneVal
    /\ NegDef2(QmiH(res.x, res.t))
    /\ res.cut.kind = "cut"
    /\ res.cut.fj[1] > 0

(* C10: QMI.eval(i, j, x) with i < j raises AssertionError, returns no     *)
(* value, and leaves count, Fx and t as they were before the call.         *)
C10_EvalStep ==
    (res'.op = "eval" /\ res'.i < res'.j) =>
        /\ res'.err = "AssertionError"
        /\ res'.cut = Raised
        /\ qmi'.count = qmi.count
        /\ qmi'.Fx = qmi.Fx
        /\ qmi'.t = qmi.t
C10_EvalPrecondition == [][C10_EvalStep]_vars

(* eval was called above the diagonal on an object whose row i was not     *)
(* cached yet                                                              *)
C10_Witness ==
    /\ res.op = "eval"
    /\ res.i < res.j
    /\ res.err = "AssertionError"
    /\ qmi.count < res.i + 1

(* the number of distinct points of a site list, and its largest distance *)
DistinctSites(site) == Cardinality({site[i] : i \in DOMAIN site})
SqDist(p, q) == (q[1] - p[1]) * (q[1] - p[1]) + (q[2] - p[2]) * (q[2] - p[2])
IsDistance(d, p, q) == d[2] = 1 /\ d[1] >= 0 /\ d[1] * d[1] = SqDist(p, q)
BuilderOps == {"construct_distance_matrix", "construct_poly_matrix",
               "generate_bspline_info"}

(* C11: a basis builder given a site list without two distinct points (a   *)
(* single site, or all sites identical) fails with an error instead of     *)
(* returning a distance matrix or basis matrices.                          *)
C11_DegenerateSitesRejected ==
    (res.op \in BuilderOps /\ DistinctSites(res.site) < 2) => res.err # ""

(* C12: lsq_oracle.assess_optim given the all-zero x (every basis          *)
(* coefficient and the epigraph coordinate 0) fails with an error; it      *)
(* returns neither a cut nor an incumbent.                                 *)
C12_AllZeroRejected ==
    (res.op = "lsq" /\ \A k \in DOMAIN res.x : res.x[k] = R(0)) =>
        (res.err # "" /\ res.cut.kind = "error" /\ res.inc = NoneVal)

(* the largest entry of a distance matrix *)
MaxEntry(D) == CHOOSE d \in {D[i][j] : i \in DOMAIN D, j \in DOMAIN D} :
                  \A i \in DOMAIN D, j \in DOMAIN D : ~RLt(d, D[i][j])

(* C13: generate_bspline_info(site, m) fixes degree 2 and returns m basis  *)
(* matrices and m + 2 + 1 evenly spaced knots from 0 to 1.2 times the      *)
(* largest pairwise distance, so every entry of the distance matrix lies   *)
(* inside the knot span, for every ordering of the sites.                  *)
C13_KnotsCoverDistances ==
    (res.op = "generate_bspline_info" /\ res.err = "") =>
        /\ Len0(res.Sigma) = res.m
        /\ Len0(res.t) = res.m + 2 + 1
        /\ res.t[0] = R(0)
        /\ \A j \in 1..(Len0(res.t) - 1) :
              RSub(res.t[j], res.t[j - 1]) = RSub(res.t[1], res.t[0])
        /\ res.t[Len0(res.t) - 1] = RMul(RDiv(R(6), R(5)), MaxEntry(res.D))
        /\ \A i \in DOMAIN res.D, j \in DOMAIN res.D :
              ~RLt(res.D[i][j], R(0)) /\ ~RLt(res.t[Len0(res.t) - 1], res.D[i][j])

RECURSIVE RPow(_, _)
RPow(d, k) == IF k = 0 THEN R(1) ELSE RMul(d, RPow(d, k - 1))

(* C14: construct_poly_matrix(site, m), m >= 1, n sites, returns exactly m *)
(* matrices of size n x n; matrix k (from 0) holds D[i][j]^k, so the first *)
(* is all ones and each next one is the previous times D elementwise, also *)
(* after the later ones were built; every matrix is symmetric; D is        *)
(* symmetric with zero diagonal and holds the Euclidean distances.         *)
C14_PolyMatrices ==
    res.op = "construct_poly_matrix" =>
        /\ DOMAIN res.D = DOMAIN res.site
        /\ \A i \in DOMAIN res.site, j \in DOMAIN res.site :
              /\ DOMAIN res.D[i] = DOMAIN res.site
              /\ IsDistance(res.D[i][j], res.site[i], res.site[j])
              /\ res.D[i][j] = res.D[j][i]
              /\ i = j => res.D[i][j] = R(0)
        /\ DOMAIN res.Sigma = 0..(res.m - 1)
        /\ \A k \in 0..(res.m - 1) :
              /\ DOMAIN res.Sigma[k] = DOMAIN res.site
              /\ \A i \in DOMAIN res.site, j \in DOMAIN res.site :
                    /\ DOMAIN res.Sigma[k][i] = DOMAIN res.site
                    /\ res.Sigma[k][i][j] = RPow(res.D[i][j], k)
                    /\ res.Sigma[k][i][j] = res.Sigma[k][j][i]

(* three matrices over sites at distance greater than 1: the first is      *)
(* still all ones while the third holds the squared distance               *)
C14_Witness ==
    /\ res.op = "construct_poly_matrix"
    /\ res.m >= 3
    /\ Len0(res.site) >= 2
    /\ RLt(R(1), res.D[0][1])
    /\ res.Sigma[0][0][1] = R(1)
    /\ res.Sigma[2][0][1] = RMul(res.D[0][1], res.D[0][1])

PipeOps == {"corr_poly", "corr_bspline"}

(* C15: a fit pipeline returns the iteration count and the feasibility     *)
(* flag of the injected search procedure verbatim for every outcome of     *)
(* it, the outcome without a coefficient vector (feasible = FALSE)         *)
(* included: the pipeline returns to its caller rather than failing.       *)
(* (For corr_bspline, with m large enough for a spline of the degree.)     *)
C15_FlagsVerbatim ==
    (res.op \in PipeOps /\ (res.op = "corr_bspline" => res.m > BsplineDegree)) =>
        /\ res.err = ""
        /\ res.num_iters = res.core.num_iters
        /\ res.feasible = res.core.feasible

(* C16: the polynomial corr_poly returns, evaluated at each training       *)
(* distance D[i][j], equals the basis combination                          *)
(* F(a)[i][j] = sum a[k] * Sigma[k][i][j] over the matrices                *)
(* construct_poly_matrix built for the fit.                                *)
C16_PolyRoundTrip ==
    (res.op = "corr_poly" /\ res.err = "") =>
        \A i \in DOMAIN res.D, j \in DOMAIN res.D :
            PolyVal(res.fn, res.D[i][j]) =
                SumTo([k \in 0..(res.m - 1) |-> RMul(res.core.a[k], res.Sigma[k][i][j])],
                      0, res.m)

(* a fit whose coefficients differ between the two ends and whose highest  *)
(* coefficient is 0, so the polynomial was trimmed                         *)
C16_Witness ==
    /\ res.op = "corr_poly"
    /\ res.err = ""
    /\ res.m >= 3
    /\ res.core.a[0] = R(1)
    /\ res.core.a[1] = R(-2)
    /\ res.core.a[res.m - 1] = R(0)
    /\ Len0(res.fn) < res.m
    /\ \E i \in DOMAIN res.D, j \in DOMAIN res.D : RLt(R(1), res.D[i][j])

(* C17: with Y = 0 and the degree-0 basis (the all-ones matrix, n >= 2     *)
(* sites), lsq_oracle.assess_optim accepts every candidate with            *)
(* coefficient x0 = 0 and epigraph value tc > 0 not above the incumbent    *)
(* as the new incumbent, so the fit is feasible and reduces to             *)
(* coefficient 0.                                                          *)
C17_DegenerateFitAccepted ==
    (/\ res.op = "lsq0"
     /\ res.x[0] = R(0)
     /\ RLt(R(0), res.x[1])
     /\ (res.t = Inf \/ ~RLt(res.t, res.x[1]))) =>
        /\ res.inc = res.x[1]
        /\ res.cut.kind = "cut"
        /\ res.cut.fj = R(0)

(* column i of Resid(c), which is what row i of the cache Fx holds *)
ResidCol(c, i) == [r \in 0..1 |-> Resid(c)[r][i]]
(* the rows a pass over the 2 x 2 matrix M visits: it stops after row 0    *)
(* when the first pivot is not positive                                    *)
RowsVisited(M) == IF M[0][0][1] <= 0 THEN 1 ELSE 2

(* C19: in any sequence of QMIOracle.update(t) and assess_feas(x) calls,   *)
(* each pass starts its row counter at 0 and works on values               *)
(* -(Fx[row].Fx[col]), plus t on the diagonal, computed from the x and the *)
(* t of the current call: afterwards the counter is the number of rows the *)
(* pass visited, each visited cache row is the column of F0 - sum x[k]F_k  *)
(* for this x, and the factorization holds the pivots and multipliers of   *)
(* H(x) for this x and t; rows cached by an earlier pass are not read.     *)
C19_RowCacheStep ==
    res'.op = "assess_feas" =>
        /\ qmi'.t = qmi.t
        /\ res'.t = qmi.t
        /\ IF qmi.t = NoneVal
           THEN /\ res'.err = "TypeError"
                /\ qmi'.count = 1
                /\ qmi'.Fx[0] = ResidCol(res'.x, 0)
           ELSE \E H \in {QmiH(res'.x, qmi.t)} :
                   /\ res'.err = ""
                   /\ qmi'.count = RowsVisited(H)
                   /\ \A i \in 0..(RowsVisited(H) - 1) :
                         qmi'.Fx[i] = ResidCol(res'.x, i)
                   /\ ldlt_qmi'.storage[0][0] = H[0][0]
                   /\ RowsVisited(H) = 2 =>
                         /\ ldlt_qmi'.storage[0][1] = H[1][0]
                         /\ ldlt_qmi'.storage[1][0] = RDiv(H[1][0], H[0][0])
                         /\ ldlt_qmi'.storage[1][1] = RDiv(Det2(H), H[0][0])
C19_RowCache == [][C19_RowCacheStep]_vars

(* a pass that stopped after row 0 while the cache still held row 1 of an  *)
(* earlier pass over a different x                                         *)
C19_Witness ==
    /\ res.op = "assess_feas"
    /\ res.err = ""
    /\ qmi.count = 1
    /\ qmi.Fx[1] # Zeros(N)
    /\ qmi.Fx[1] # ResidCol(res.x, 1)
    /\ qmi.Fx[0] = ResidCol(res.x, 0)

(* C20: when H(x) is not positive definite, entry k of the cut gradient is *)
(* the derivative of w^T H(x) w in the direction of F_k, that is           *)
(* -2 (R w).(F_k w) with R = F0 - sum x[k] F_k and w the witness vector,   *)
(* for any basis matrices F_k, symmetric or not.                           *)
C20_GradientAnyBasis ==
    (/\ res.op = "assess_feas"
     /\ res.err = ""
     /\ res.t # NoneVal
     /\ ~PosDef2(QmiH(res.x, res.t)))
        => \E w \in {Wit2(QmiH(res.x, res.t))} :
              /\ res.cut # NoCut
              /\ Len0(res.cut.g) = NumBasis
              /\ \A k \in 0..(NumBasis - 1) :
                    res.cut.g[k] =
                        RMul(R(-2), Dot2(MatVec(Resid(res.x), w),
                                         MatVec(Sigma[k], w)))

(* the sub-objects of an instance on which no call was made yet *)
FreshO ==
    [qmi |-> QMIInit, ldlt_qmi |-> LDLTInit, ldlt_lmi0 |-> LDLTInit,
     ldlt_lmi |-> LDLTInit]

(* C21: a cut computation does not depend on earlier calls.  Whatever      *)
(* calls an instance served before, QMIOracle.assess_feas(x) after         *)
(* update(t), lsq_oracle.assess_optim(x, t) and the monotonicity wrapper   *)
(* around it return the cut (gradient and value), the incumbent and the    *)
(* exception that a new instance over the same matrices returns for the    *)
(* same (x, t): the row cache, row counter, threshold and factorization    *)
(* scratch left behind have no influence.                                  *)
C21_HistoryStep ==
    /\ (res'.op = "assess_feas" /\ qmi.t # NoneVal) =>
          \E r \in {QMIOracleAssessFeas(QMIUpdate(QMIInit, qmi.t), LDLTInit,
                                        res'.x)} :
              /\ res'.cut = r.cut
              /\ res'.err = r.err
    /\ res'.op \in {"lsq", "lsq0"} =>
          \E r \in {LsqAssessOptim(FreshO, res'.x, res'.t)} :
              /\ res'.cut = r.cut
              /\ res'.inc = r.inc
              /\ res'.err = r.err
    /\ res'.op = "mono_lsq" =>
          \E r \in {MonoDecAssessOptim("lsq", FreshO, res'.x, res'.t)} :
              /\ res'.cut = r.cut
              /\ res'.inc = r.inc
              /\ res'.err = r.err
C21_HistoryIndependent == [][C21_HistoryStep]_vars

(* an lsq call whose QMI pass stopped at row 0 on an instance that still   *)
(* held the cached row, the witness entry and an incumbent of earlier calls *)
C21_Witness ==
    /\ res.op = "lsq"
    /\ res.checks = <<"lmi0", "qmi">>
    /\ res.cut.kind = "cut"
    /\ ldlt_qmi.pos = <<0, 1>>
    /\ ldlt_qmi.wit[1] # R(0)
    /\ qmi.Fx[1] # Zeros(N)
    /\ best # Inf

(* a <= b, with +inf the largest value *)
RLe(a, b) == ~RLt(b, a)

(* every feasibility check of the oracle behind op holds at x, decided by  *)
(* leading minors and by comparing neighbours                              *)
(* F(c) and H(c, t) when there is one basis matrix only *)
FofX1(c) == [i \in 0..1 |-> [j \in 0..1 |-> RMul(Sigma[0][i][j], c[0])]]
QmiH1(c, t) == [i \in 0..1 |-> [j \in 0..1 |->
                  RSub(IF i = j THEN t ELSE R(0),
                       Gram([r \in 0..1 |-> [q \in 0..1 |->
                               RSub(Y[r][q], FofX1(c)[r][q])]])[i][j])]]
LsqChecksHold(x) ==
    IF NumBasis = 1
    THEN PosDef2(FofX1(Init0(x))) /\ PosDef2(QmiH1(Init0(x), Last0(x)))
    ELSE PosDef2(FofX(Init0(x))) /\ PosDef2(QmiH(Init0(x), Last0(x)))
MleChecksHold(x) == PosDef2(UpperOf(x)) /\ PosDef2(FofX(x))
ChecksHold(op, x) ==
    CASE op \in {"lsq", "lsq0"} -> LsqChecksHold(x)
      [] op = "mle" -> MleChecksHold(x)
      [] op = "mono_lsq" -> NonIncreasing(Init0(x)) /\ LsqChecksHold(x)
      [] op = "mono_mle" -> NonIncreasing(Init0(x)) /\ MleChecksHold(x)
      [] OTHER -> FALSE
OptimOps == {"lsq", "lsq0", "mle", "mono_lsq", "mono_mle"}

(* C22: incumbents only improve and only come from feasible points.  When  *)
(* lsq_oracle, mle_oracle or mono_decreasing_oracle2 returns an incumbent  *)
(* for (x, t), every feasibility check of that oracle holds at x, the cut  *)
(* value is 0 and the incumbent is <= t (< t for mle); a result whose cut  *)
(* comes from a failed feasibility check has no incumbent; and when the    *)
(* caller passes the latest incumbent back as t, the incumbents it keeps   *)
(* never increase.                                                         *)
C22_IncumbentStep ==
    res'.op \in OptimOps =>
        /\ res'.t = best
        /\ res'.inc # NoneVal =>
              /\ ChecksHold(res'.op, res'.x)
              /\ res'.cut.kind = "cut"
              /\ res'.cut.fj = R(0)
              /\ IF res'.op \in {"mle", "mono_mle"}
                 THEN RLt(res'.inc, res'.t)
                 ELSE RLe(res'.inc, res'.t)
              /\ best' = res'.inc
              /\ RLe(best', best)
        /\ res'.inc = NoneVal => best' = best
        /\ ~ChecksHold(res'.op, res'.x) => res'.inc = NoneVal
===========================================================================
